---- MODULE Spec2Model ----
(***************************************************************************)
(* Model of api/movies.rs: the serverless `handler` that proxies the       *)
(* movies resource to the Supabase REST API.                               *)
(*                                                                         *)
(* Text is a sequence of fragments.  The inbound URI and the header values *)
(* the code splits are given character by character; the literals the code *)
(* only concatenates are kept as one fragment each.  A usize is a          *)
(* normalised sequence of decimal digits (most significant first), so that *)
(* the 64-bit width of the arithmetic on `page` is kept exactly.           *)
(***************************************************************************)
EXTENDS Integers, Sequences, FiniteSets, TLC

VARIABLES env, req, pc, query_parts, page, from, to, id, payload,
          outbound, res, total_count, result

vars == <<env, req, pc, query_parts, page, from, to, id, payload,
          outbound, res, total_count, result>>

(***************************************************************************)
(* Option values                                                           *)
(***************************************************************************)
None == [some |-> FALSE]

Some(v) == [some |-> TRUE, v |-> v]

\* Option::unwrap_or
UnwrapOr(o, d) == IF o.some THEN o.v ELSE d

(***************************************************************************)
(* Text helpers                                                            *)
(***************************************************************************)
RECURSIVE Split(_, _)
\* str::split(sep): the pieces between the separators, empty pieces included
Split(s, sep) ==
  IF \A i \in 1..Len(s) : s[i] # sep
    THEN <<s>>
    ELSE LET i == CHOOSE j \in 1..Len(s) :
                    s[j] = sep /\ \A k \in 1..(j - 1) : s[k] # sep
         IN  <<SubSeq(s, 1, i - 1)>> \o Split(SubSeq(s, i + 1, Len(s)), sep)

\* Iterator::nth(n) followed by unwrap_or("")
NthOrEmpty(parts, n) == IF Len(parts) > n THEN parts[n + 1] ELSE <<>>

RECURSIVE Reverse(_)
Reverse(s) == IF s = <<>> THEN <<>> ELSE Reverse(Tail(s)) \o <<Head(s)>>

(***************************************************************************)
(* usize: decimal digit sequences, 64 bits wide                            *)
(***************************************************************************)
DigitChars == <<"0", "1", "2", "3", "4", "5", "6", "7", "8", "9">>

IsDigit(c) == \E i \in 1..10 : DigitChars[i] = c

DigitVal(c) == (CHOOSE i \in 1..10 : DigitChars[i] = c) - 1

RECURSIVE DecNorm(_)
\* strip leading zeros
DecNorm(d) ==
  IF Len(d) > 1 /\ Head(d) = 0 THEN DecNorm(Tail(d))
  ELSE IF d = <<>> THEN <<0>> ELSE d

RECURSIVE DecLexLess(_, _)
DecLexLess(a, b) ==
  IF a = <<>> THEN FALSE
  ELSE IF Head(a) # Head(b) THEN Head(a) < Head(b)
  ELSE DecLexLess(Tail(a), Tail(b))

\* a < b on normalised digit sequences
DecLess(a, b) ==
  IF Len(a) # Len(b) THEN Len(a) < Len(b) ELSE DecLexLess(a, b)

RECURSIVE MulAddLE(_, _, _)
\* little-endian digits of d * k + carry
MulAddLE(d, k, carry) ==
  IF d = <<>>
    THEN IF carry = 0 THEN <<>>
         ELSE <<carry % 10>> \o MulAddLE(<<>>, k, carry \div 10)
    ELSE LET v == Head(d) * k + carry
         IN  <<v % 10>> \o MulAddLE(Tail(d), k, v \div 10)

\* exact d * k + c for small k, c (no width)
DecMulAdd(d, k, c) == DecNorm(Reverse(MulAddLE(Reverse(d), k, c)))

RECURSIVE SubLE(_, _, _)
\* little-endian digits of a - b - borrow, for a >= b + borrow
SubLE(a, b, borrow) ==
  IF a = <<>> THEN <<>>
  ELSE LET bd == IF b = <<>> THEN 0 ELSE Head(b)
           bt == IF b = <<>> THEN <<>> ELSE Tail(b)
           v  == Head(a) - bd - borrow
       IN  IF v < 0 THEN <<v + 10>> \o SubLE(Tail(a), bt, 1)
           ELSE <<v>> \o SubLE(Tail(a), bt, 0)

\* exact a - b for a >= b
DecSub(a, b) == DecNorm(Reverse(SubLE(Reverse(a), Reverse(b), 0)))

\* usize::MAX = 2^64 - 1 = 18446744073709551615
USIZE_MAX == <<1,8,4,4,6,7,4,4,0,7,3,7,0,9,5,5,1,6,1,5>>

\* 2^64
USIZE_MODULUS == DecMulAdd(USIZE_MAX, 1, 1)

Overflows(d) == DecLess(USIZE_MAX, d)

RECURSIVE WrapUsize(_)
\* the value an overflowing usize operation leaves without overflow checks
WrapUsize(d) == IF Overflows(d) THEN WrapUsize(DecSub(d, USIZE_MODULUS)) ELSE d

\* <usize as FromStr>::from_str: an optional leading '+', then digits only;
\* empty text, a lone sign, a '-' and a value above usize::MAX are errors
ParseUsize(s) ==
  IF s = <<>> \/ s = <<"+">> \/ s = <<"-">> THEN None
  ELSE LET digits == IF Head(s) = "+" THEN Tail(s) ELSE s
       IN  IF \E i \in 1..Len(digits) : ~IsDigit(digits[i]) THEN None
           ELSE LET d == DecNorm([i \in 1..Len(digits) |-> DigitVal(digits[i])])
                IN  IF Overflows(d) THEN None ELSE Some(d)

\* Display for usize
FormatUsize(d) == [i \in 1..Len(d) |-> DigitChars[d[i] + 1]]

(***************************************************************************)
(* Query parsing (handler, lines 58-72)                                    *)
(***************************************************************************)
\* the (key, value) pair of one segment: the first two pieces around '='
KeyValue(s) ==
  LET parts == Split(s, "=")
  IN  <<NthOrEmpty(parts, 0), NthOrEmpty(parts, 1)>>

\* the pairs in the order the iterator yields them
QueryPairs(uri) ==
  LET segments == Split(NthOrEmpty(Split(uri, "?"), 1), "&")
      kept     == SelectSeq(segments, LAMBDA s : s # <<>>)
  IN  [i \in 1..Len(kept) |-> KeyValue(kept[i])]

CollectFirst(pairs) ==
  LET keys == {pairs[i][1] : i \in 1..Len(pairs)}
  IN  [k \in keys |->
         LET first == CHOOSE i \in 1..Len(pairs) :
                        /\ pairs[i][1] = k
                        /\ \A j \in 1..(i - 1) : pairs[j][1] # k
         IN  pairs[first][2]]

\* collect::<HashMap<_, _>>(): inserting in order, a later pair replaces an
\* earlier one with the same key
Collect(pairs) ==
  LET keys == {pairs[i][1] : i \in 1..Len(pairs)}
  IN  [k \in keys |->
         LET last == CHOOSE i \in 1..Len(pairs) :
                       /\ pairs[i][1] = k
                       /\ \A j \in (i + 1)..Len(pairs) : pairs[j][1] # k
         IN  pairs[last][2]]

QueryParts(uri) == Collect(QueryPairs(uri))

\* HashMap::get
Get(map, k) == IF k \in DOMAIN map THEN Some(map[k]) ELSE None

K_query == <<"q", "u", "e", "r", "y">>

K_page == <<"p", "a", "g", "e">>

K_id == <<"i", "d">>


(***************************************************************************)
(* Request bodies and serde_json::from_slice                               *)
(*                                                                         *)
(* A body is what to_bytes delivers: a read failure, or bytes that are a   *)
(* JSON document or not.  A JSON value is absent (no such key), null, a    *)
(* string or a number.                                                     *)
(***************************************************************************)
JAbsent == [t |-> "absent"]

JNull == [t |-> "null"]

JString(s) == [t |-> "string", s |-> s]

JNumber(n) == [t |-> "number", n |-> n]

JObject(title, tagline, popularity, release_date) ==
  [t |-> "object", title |-> title, tagline |-> tagline,
   popularity |-> popularity, release_date |-> release_date]

JArray(elems) == [t |-> "array", elems |-> elems]

ParseErr == [ok |-> FALSE]

ParseOk(v) == [ok |-> TRUE, v |-> v]

\* Deserialize for String
DeString(j) == IF j.t = "string" THEN ParseOk(j.s) ELSE ParseErr

\* Deserialize for Option<String>: a missing key and null are None
DeOptString(j) ==
  IF j.t \in {"absent", "null"} THEN ParseOk(None)
  ELSE IF j.t = "string" THEN ParseOk(Some(j.s)) ELSE ParseErr

\* Deserialize for Option<f64>
DeOptF64(j) ==
  IF j.t \in {"absent", "null"} THEN ParseOk(None)
  ELSE IF j.t = "number" THEN ParseOk(Some(j.n)) ELSE ParseErr

\* the four members a derived struct visitor sees: the keys of a map, or the
\* elements of a sequence of exactly four; anything else is an error
StructMembers(doc) ==
  IF doc.t = "object"
    THEN ParseOk(<<doc.title, doc.tagline, doc.popularity, doc.release_date>>)
  ELSE IF doc.t = "array" /\ Len(doc.elems) = 4 THEN ParseOk(doc.elems)
  ELSE ParseErr

FromSliceMovieInputLenient(doc) ==
  LET m == StructMembers(doc)
  IN  IF ~m.ok THEN ParseErr
      ELSE LET title        == DeOptString(m.v[1])
               tagline      == DeOptString(m.v[2])
               popularity   == DeOptF64(m.v[3])
               release_date == DeOptString(m.v[4])
           IN  IF title.ok /\ tagline.ok /\ popularity.ok /\ release_date.ok
                 THEN ParseOk([title |-> UnwrapOr(title.v, ""),
                               tagline |-> tagline.v,
                               popularity |-> popularity.v,
                               release_date |-> release_date.v])
                 ELSE ParseErr

\* serde_json::from_slice::<MovieInput>
FromSliceMovieInput(doc) ==
  LET m == StructMembers(doc)
  IN  IF ~m.ok THEN ParseErr
      ELSE LET title        == DeString(m.v[1])
               tagline      == DeOptString(m.v[2])
               popularity   == DeOptF64(m.v[3])
               release_date == DeOptString(m.v[4])
           IN  IF title.ok /\ tagline.ok /\ popularity.ok /\ release_date.ok
                 THEN ParseOk([title |-> title.v, tagline |-> tagline.v,
                               popularity |-> popularity.v,
                               release_date |-> release_date.v])
                 ELSE ParseErr

\* serde_json::from_slice::<MovieUpdate>
FromSliceMovieUpdate(doc) ==
  LET m == StructMembers(doc)
  IN  IF ~m.ok THEN ParseErr
      ELSE LET title        == DeOptString(m.v[1])
               tagline      == DeOptString(m.v[2])
               popularity   == DeOptF64(m.v[3])
               release_date == DeOptString(m.v[4])
           IN  IF title.ok /\ tagline.ok /\ popularity.ok /\ release_date.ok
                 THEN ParseOk([title |-> title.v, tagline |-> tagline.v,
                               popularity |-> popularity.v,
                               release_date |-> release_date.v])
                 ELSE ParseErr

NoFieldsTitleOnly(p) == ~p.title.some

\* the emptiness test of the PATCH branch (lines 169-172)
NoFields(p) ==
  ~p.title.some /\ ~p.tagline.some /\ ~p.popularity.some /\ ~p.release_date.some

(***************************************************************************)
(* Backend responses                                                       *)
(***************************************************************************)
\* records of the movies table, as the backend returns them
Movie == {[id |-> 1, title |-> "Dune"], [id |-> 2, title |-> "Alien"]}

\* the JSON text of a readable response body
BodyText(body) ==
  IF body.kind = "rows"
    THEN <<"[">> \o [i \in 1..Len(body.rows) |-> body.rows[i].title] \o <<"]">>
    ELSE body.text

\* Response::text
Text(body) == IF body.kind = "unreadable" THEN ParseErr ELSE ParseOk(BodyText(body))

\* Response::json::<Vec<Movie>>
JsonMovies(body) == IF body.kind = "rows" THEN ParseOk(body.rows) ELSE ParseErr

IsSuccessOnly200(status) == status = 200

\* StatusCode::is_success
IsSuccess(status) == 200 <= status /\ status < 300

\* lines 100-106: the text after the last '/' of Content-Range, else "0"
TotalCount(header) ==
  IF header.kind = "text"
    THEN LET parts == Split(header.value, "/") IN parts[Len(parts)]
    ELSE <<"0">>

\* Vec::into_iter().next()
First(rows) == IF rows = <<>> THEN None ELSE Some(rows[1])


(***************************************************************************)
(* Inputs: environments, requests, backend responses                       *)
(***************************************************************************)
\* an environment variable is unset, set to the empty text, or set
EnvValues(v) == {None, Some(<<>>), Some(<<v>>)}

Environments ==
  [SUPABASE_URL : EnvValues("https://db.example"),
   SUPABASE_ANON_KEY : EnvValues("anon-key")]

Methods == {"GET", "POST", "PATCH", "DELETE", "PUT"}

Path == <<"/">>

SegId1 == <<"i", "d", "=", "1">>

SegId7 == <<"i", "d", "=", "7">>

SegIdEmpty == <<"i", "d", "=">>

SegPage2 == <<"p", "a", "g", "e", "=", "2">>

SegQuery == <<"q", "u", "e", "r", "y", "=", "m">>

Segments == {SegId1, SegId7, SegIdEmpty, SegPage2, SegQuery}

\* URIs the model does not build from Segments: signs, non-digits, values at
\* the edge of usize, keys without value, extra separators
OtherUris ==
  {<<"/", "?", "p", "a", "g", "e", "=", "-", "1">>,
   <<"/", "?", "p", "a", "g", "e", "=", "+", "3">>,
   <<"/", "?", "p", "a", "g", "e", "=", "x">>,
   <<"/", "?", "p", "a", "g", "e", "=">>,
   <<"/", "?", "p", "a", "g", "e", "=", "2", "3", "0", "5", "8", "4", "3", "0", "0", "9", "2", "1", "3", "6", "9", "3", "9", "5", "2">>,
   <<"/", "?", "p", "a", "g", "e", "=", "2", "3", "0", "5", "8", "4", "3", "0", "0", "9", "2", "1", "3", "6", "9", "3", "9", "5", "1">>,
   <<"/", "?", "p", "a", "g", "e", "=", "1", "8", "4", "4", "6", "7", "4", "4", "0", "7", "3", "7", "0", "9", "5", "5", "1", "6", "1", "6">>,
   <<"/", "?", "i", "d">>,
   <<"/", "?", "i", "d", "=", "1", "=", "7">>,
   <<"/", "?", "&", "i", "d", "=", "1", "&">>,
   <<"/", "?", "i", "d", "=", "1", "?", "i", "d", "=", "7">>,
   <<"/", "?", "i", "d", "=", "1", "&", "p", "a", "g", "e", "=", "2", "&", "i", "d", "=", "7", "&", "p", "a", "g", "e", "=", "3">>}

Uris ==
  {Path} \cup {Path \o <<"?">> \o a : a \in Segments}
         \cup {Path \o <<"?">> \o a \o <<"&">> \o b : a \in Segments, b \in Segments}
         \cup OtherUris

Titles == {JAbsent, JNull, JString("Dune"), JString(""), JNumber(5)}

Popularities == {JAbsent, JNumber(7)}

Documents ==
  {[t |-> "empty"], [t |-> "malformed"], JNumber(5)}
    \cup {JObject(ti, JAbsent, po, JAbsent) : ti \in Titles, po \in Popularities}
    \cup {JObject(JAbsent, JString("t"), JAbsent, JAbsent),
          JObject(JAbsent, JAbsent, JAbsent, JString("2021-10-22")),
          JObject(JAbsent, JAbsent, JString("x"), JAbsent),
          JObject(JString("Dune"), JNumber(1), JAbsent, JNull),
          JArray(<<JString("Dune"), JNull, JNull, JNull>>),
          JArray(<<JNull, JNull, JNull, JNull>>),
          JArray(<<JString("Dune")>>)}

Bodies == {[kind |-> "unreadable"]} \cup {[kind |-> "bytes", doc |-> d] : d \in Documents}

\* the bodies tried with the verbs whose branch never touches the body
FewBodies ==
  {[kind |-> "unreadable"], [kind |-> "bytes", doc |-> [t |-> "malformed"]],
   [kind |-> "bytes", doc |-> JObject(JString("Dune"), JAbsent, JAbsent, JAbsent)]}

Requests ==
  {r \in [method : Methods, uri : Uris, body : Bodies] :
     r.method \in {"POST", "PATCH"} \/ r.body \in FewBodies}

\* the most records one backend response carries
MaxRows == 2

\* the record lists a response can carry
RowSeqs == UNION {[1..n -> Movie] : n \in 0..MaxRows}

ResponseBodies ==
  {[kind |-> "unreadable"]} \cup
  {[kind |-> "text", text |-> <<"{\"message\":\"denied\"}">>]} \cup
  {[kind |-> "rows", rows |-> r] : r \in RowSeqs}

ContentRanges ==
  {[kind |-> "absent"],
   [kind |-> "text", value |-> <<"0", "-", "7", "/", "2", "3">>]}

Statuses == {200, 204, 409}

Responses ==
  [status : Statuses, content_range : ContentRanges, body : ResponseBodies]

(***************************************************************************)
(* Results of handler                                                      *)
(***************************************************************************)
\* Ok(json!(...))
Ok(value) == [tag |-> "Ok", value |-> value]

\* the Err a `?` propagates to the caller
Err(cause) == [tag |-> "Err", cause |-> cause]

\* an arithmetic overflow under overflow checks
Panic == [tag |-> "Panic"]

Pending == [tag |-> "Pending"]

ConfigError ==
  [error |-> "Backend environment variables are not set",
   details |-> "Check Vercel Dashboard > Settings > Environment Variables"]

supabase_url == UnwrapOr(env.SUPABASE_URL, <<>>)

supabase_key == UnwrapOr(env.SUPABASE_ANON_KEY, <<>>)

ConfigMissingBoth(url, key) == url = <<>> /\ key = <<>>

\* the guard of line 42
ConfigMissing(url, key) == url = <<>> \/ key = <<>>

HasIdAny(map) == Get(map, K_id).some

\* `Some(value) if !value.is_empty()` (lines 150-151, 203-204)
HasId(map) == Get(map, K_id).some /\ Get(map, K_id).v # <<>>

AuthHeaders(key) == [apikey |-> key, Authorization |-> <<"Bearer ">> \o key]

\* RequestBuilder::send: the one place an outbound call is issued
Issue(calls, call) == Append(calls, call)


(***************************************************************************)
(* handler (lines 35-236), one action per stretch between two awaits       *)
(***************************************************************************)
Init ==
  /\ env \in Environments
  /\ req = [method |-> "GET", uri |-> Path, body |-> [kind |-> "unreadable"]]
  /\ pc = "idle"
  /\ query_parts = <<>>
  /\ page = None
  /\ from = None
  /\ to = None
  /\ id = None
  /\ payload = None
  /\ outbound = <<>>
  /\ res = None
  /\ total_count = None
  /\ result = Pending

\* the runtime calls handler(req)
Invoke(r) ==
  /\ pc = "idle"
  /\ req' = r
  /\ pc' = "entry"
  /\ UNCHANGED <<env, query_parts, page, from, to, id, payload, outbound, res,
                 total_count, result>>

\* the runtime takes the result and drops the invocation: nothing of it is
\* kept, the next invocation starts from fresh locals
Complete ==
  /\ pc = "done"
  /\ pc' = "idle"
  /\ req' = [method |-> "GET", uri |-> Path, body |-> [kind |-> "unreadable"]]
  /\ query_parts' = <<>>
  /\ page' = None
  /\ from' = None
  /\ to' = None
  /\ id' = None
  /\ payload' = None
  /\ outbound' = <<>>
  /\ res' = None
  /\ total_count' = None
  /\ result' = Pending
  /\ UNCHANGED env

\* return of a value from handler
Return(r) == pc' = "done" /\ result' = r

\* lines 81-83: from = page * items_per_page, to = from + items_per_page - 1,
\* in usize arithmetic.  With overflow checks an overflow panics, without
\* them the value wraps.
Window(p, overflow_checks) ==
  LET items_per_page == 8
      product == DecMulAdd(p, items_per_page, 0)
      f       == WrapUsize(product)
      sum     == DecMulAdd(f, 1, items_per_page)
      s       == WrapUsize(sum)
      t       == IF s = <<0>> THEN USIZE_MAX ELSE DecSub(s, <<1>>)
  IN  [panic |-> overflow_checks /\ (Overflows(product) \/ Overflows(sum) \/ s = <<0>>),
       from |-> f, to |-> t]

\* lines 78-98: the GET branch up to the await of send()
GetBranch(parts, overflow_checks) ==
  LET search_term == UnwrapOr(Get(parts, K_query), <<>>)
      parsed      == IF Get(parts, K_page).some
                       THEN ParseUsize(Get(parts, K_page).v) ELSE None
      p           == UnwrapOr(parsed, <<0>>)
      w           == Window(p, overflow_checks)
      filter      == IF search_term # <<>>
                       THEN <<"&title=ilike.*">> \o search_term \o <<"*">>
                       ELSE <<>>
      target_url  == supabase_url \o <<"/rest/v1/movies?select=*">> \o filter
                       \o <<"&order=release_date.desc">>
      call        == [method |-> "GET", url |-> target_url,
                      headers |-> [apikey |-> supabase_key,
                                   Authorization |-> <<"Bearer ">> \o supabase_key,
                                   Range |-> FormatUsize(w.from) \o <<"-">>
                                               \o FormatUsize(w.to),
                                   Prefer |-> <<"count=exact">>]]
  IN  /\ page' = Some(p)
      /\ IF w.panic
           THEN /\ Return(Panic)
                /\ UNCHANGED <<from, to, outbound>>
           ELSE /\ from' = Some(w.from)
                /\ to' = Some(w.to)
                /\ outbound' = Issue(outbound, call)
                /\ pc' = "send"
                /\ UNCHANGED result
      /\ UNCHANGED id

\* lines 150-157: the id check of the PATCH branch, then the await of to_bytes
PatchBranch(parts) ==
  /\ IF HasId(parts)
       THEN /\ id' = Get(parts, K_id)
            /\ pc' = "to_bytes"
            /\ UNCHANGED result
       ELSE /\ Return(Ok([error |-> "Missing id query parameter."]))
            /\ UNCHANGED id
  /\ UNCHANGED <<page, from, to, outbound>>

\* lines 203-218: the DELETE branch up to the await of send()
DeleteBranch(parts) ==
  /\ IF HasId(parts)
       THEN LET value      == Get(parts, K_id).v
                target_url == supabase_url \o <<"/rest/v1/movies?id=eq.">> \o value
                call       == [method |-> "DELETE", url |-> target_url,
                               headers |-> AuthHeaders(supabase_key)]
            IN  /\ id' = Some(value)
                /\ outbound' = Issue(outbound, call)
                /\ pc' = "send"
                /\ UNCHANGED result
       ELSE /\ Return(Ok([error |-> "Missing id query parameter."]))
            /\ UNCHANGED <<id, outbound>>
  /\ UNCHANGED <<page, from, to>>

BranchPutAsPost(method) ==
  IF method \in {"GET", "POST", "PATCH", "DELETE"} THEN method
  ELSE IF method = "PUT" THEN "POST" ELSE "_"

\* the arm `match *req.method()` selects (lines 76, 77, 115, 149, 202, 232)
Branch(method) ==
  IF method \in {"GET", "POST", "PATCH", "DELETE"} THEN method ELSE "_"

\* lines 36-76 and the start of the branch the method selects
HandlerEntry ==
  /\ pc = "entry"
  /\ IF ConfigMissing(supabase_url, supabase_key)
       THEN /\ Return(Ok(ConfigError))
            /\ UNCHANGED <<query_parts, page, from, to, id, outbound>>
       ELSE LET parts == QueryParts(req.uri)
            IN  /\ query_parts' = parts
                /\ CASE Branch(req.method) = "GET" ->
                          \E overflow_checks \in BOOLEAN :
                            GetBranch(parts, overflow_checks)
                     [] Branch(req.method) = "POST" ->
                          /\ pc' = "to_bytes"
                          /\ UNCHANGED <<page, from, to, id, outbound, result>>
                     [] Branch(req.method) = "PATCH" -> PatchBranch(parts)
                     [] Branch(req.method) = "DELETE" -> DeleteBranch(parts)
                     [] OTHER ->
                          /\ Return(Ok([error |-> "Unsupported method."]))
                          /\ UNCHANGED <<page, from, to, id, outbound>>
  /\ UNCHANGED <<env, req, payload, res, total_count>>

\* lines 116-134: from the body to the await of send()
PostBody(doc) ==
  LET parsed == FromSliceMovieInput(doc)
  IN  IF parsed.ok
        THEN LET target_url == supabase_url \o <<"/rest/v1/movies">>
                 call == [method |-> "POST", url |-> target_url,
                          headers |-> [apikey |-> supabase_key,
                                       Authorization |-> <<"Bearer ">> \o supabase_key,
                                       Prefer |-> <<"return=representation">>],
                          json |-> parsed.v]
             IN  /\ payload' = Some(parsed.v)
                 /\ outbound' = Issue(outbound, call)
                 /\ pc' = "send"
                 /\ UNCHANGED result
        ELSE /\ Return(Ok([error |-> "Invalid JSON payload."]))
             /\ UNCHANGED <<payload, outbound>>

\* lines 159-187: from the body to the await of send()
PatchBody(doc) ==
  LET parsed == FromSliceMovieUpdate(doc)
  IN  IF ~parsed.ok
        THEN /\ Return(Ok([error |-> "Invalid JSON payload."]))
             /\ UNCHANGED <<payload, outbound>>
        ELSE IF NoFields(parsed.v)
          THEN /\ Return(Ok([error |-> "No fields provided for update."]))
               /\ payload' = Some(parsed.v)
               /\ UNCHANGED outbound
          ELSE LET target_url == supabase_url \o <<"/rest/v1/movies?id=eq.">> \o id.v
                   call == [method |-> "PATCH", url |-> target_url,
                            headers |-> [apikey |-> supabase_key,
                                         Authorization |-> <<"Bearer ">> \o supabase_key,
                                         Prefer |-> <<"return=representation">>],
                            json |-> parsed.v]
               IN  /\ payload' = Some(parsed.v)
                   /\ outbound' = Issue(outbound, call)
                   /\ pc' = "send"
                   /\ UNCHANGED result

\* to_bytes(req.into_body()).await? completes (lines 116, 159)
BodyRead ==
  /\ pc = "to_bytes"
  /\ IF req.body.kind = "unreadable"
       THEN /\ Return(Err("to_bytes"))
            /\ UNCHANGED <<payload, outbound>>
       ELSE IF Branch(req.method) = "POST" THEN PostBody(req.body.doc)
            ELSE PatchBody(req.body.doc)
  /\ UNCHANGED <<env, req, query_parts, page, from, to, id, res, total_count>>

\* send().await? completes: a transport error, or a response whose status
\* and headers the branch inspects (lines 98-106, 134-136, 187-189, 218-230)
SendCompletes ==
  /\ pc = "send"
  /\ \/ /\ Return(Err("send"))
        /\ UNCHANGED <<res, total_count>>
     \/ \E r \in Responses :
          /\ res' = Some(r)
          /\ IF Branch(req.method) = "GET"
               THEN /\ total_count' = Some(TotalCount(r.content_range))
                    /\ pc' = "json"
                    /\ UNCHANGED result
               ELSE /\ UNCHANGED total_count
                    /\ IF ~IsSuccess(r.status)
                         THEN pc' = "text" /\ UNCHANGED result
                         ELSE IF Branch(req.method) = "DELETE"
                           THEN Return(Ok([status |-> "deleted"]))
                           ELSE pc' = "json" /\ UNCHANGED result
  /\ UNCHANGED <<env, req, query_parts, page, from, to, id, payload, outbound>>

FailedError(method) ==
  CASE method = "POST" -> "Supabase insert failed."
    [] method = "PATCH" -> "Supabase update failed."
    [] method = "DELETE" -> "Supabase delete failed."

\* res.text().await completes (lines 137-141, 190-194, 221-225)
TextCompletes ==
  /\ pc = "text"
  /\ LET text    == Text(res.v.body)
         details == IF text.ok THEN text.v ELSE <<"Unknown error">>
     IN  Return(Ok([error |-> FailedError(Branch(req.method)), details |-> details]))
  /\ UNCHANGED <<env, req, query_parts, page, from, to, id, payload, outbound,
                 res, total_count>>

\* res.json().await completes (lines 108-113, 144-147, 197-200)
JsonCompletes ==
  /\ pc = "json"
  /\ LET decoded == JsonMovies(res.v.body)
     IN  IF Branch(req.method) = "GET"
           THEN IF decoded.ok
                  THEN Return(Ok([movies |-> decoded.v,
                                  total |-> UnwrapOr(ParseUsize(total_count.v), <<0>>)]))
                  ELSE Return(Err("json"))
           ELSE LET rows == IF decoded.ok THEN decoded.v ELSE <<>>
                IN  Return(Ok([movie |-> First(rows)]))
  /\ UNCHANGED <<env, req, query_parts, page, from, to, id, payload, outbound,
                 res, total_count>>

Next ==
  \/ \E r \in Requests : Invoke(r)
  \/ HandlerEntry
  \/ BodyRead
  \/ SendCompletes
  \/ TextCompletes
  \/ JsonCompletes
  \/ Complete

Spec == Init /\ [][Next]_vars

TypeOK ==
  /\ env \in Environments
  /\ req \in Requests
  /\ pc \in {"idle", "entry", "to_bytes", "send", "text", "json", "done"}
  /\ result.tag \in {"Pending", "Ok", "Err", "Panic"}
  /\ (pc = "done") = (result # Pending)
  /\ res.some => res.v \in Responses


(***************************************************************************)
(* What the properties speak of, stated on the request and the environment *)
(***************************************************************************)
IsSet(v) == v.some /\ v.v # <<>>

\* both configuration values are present and non-empty
Configured == IsSet(env.SUPABASE_URL) /\ IsSet(env.SUPABASE_ANON_KEY)

\* an invocation is in progress or has just returned
Invoked == pc # "idle"

\* the handler has got past the configuration check and the query parsing
Parsed == Configured /\ pc \notin {"idle", "entry"}

Occurrences(uri, k) ==
  SelectSeq(QueryPairs(uri), LAMBDA kv : kv[1] = k)

\* the value of the first pair of the query string whose key is k
FirstOccurrence(uri, k) ==
  LET occ == Occurrences(uri, k)
  IN  IF occ = <<>> THEN None ELSE Some(occ[1][2])

\* the value of the last pair of the query string whose key is k
LastOccurrence(uri, k) ==
  LET occ == Occurrences(uri, k)
  IN  IF occ = <<>> THEN None ELSE Some(occ[Len(occ)][2])

\* the request names a non-empty id
IdGiven == IsSet(LastOccurrence(req.uri, K_id))

BodyIsBytes == req.body.kind = "bytes"

IsStr(j) == j.t = "string"

IsOptStr(j) == j.t \in {"absent", "null", "string"}

IsOptNum(j) == j.t \in {"absent", "null", "number"}

\* the document has the shape of a MovieUpdate
FitsMovieUpdate(doc) ==
  /\ StructMembers(doc).ok
  /\ LET m == StructMembers(doc).v
     IN  IsOptStr(m[1]) /\ IsOptStr(m[2]) /\ IsOptNum(m[3]) /\ IsOptStr(m[4])

\* the document has the shape of a MovieInput: a MovieUpdate whose title is a string
FitsMovieInput(doc) == FitsMovieUpdate(doc) /\ IsStr(StructMembers(doc).v[1])

\* none of title, tagline, popularity, release_date is given a value
NoFieldPresent(doc) ==
  \A i \in 1..4 : StructMembers(doc).v[i].t \in {"absent", "null"}

BaseUrl == env.SUPABASE_URL.v

IsErrorEnvelope(r) ==
  r.tag = "Ok" /\ "error" \in DOMAIN r.value /\ "details" \in DOMAIN r.value

(***************************************************************************)
(* C1: every invocation returns a JSON value and never a fault: whatever   *)
(* the request and the backend do, a finished invocation has not returned  *)
(* Err.  Violated: the code propagates the errors of to_bytes, of send and *)
(* (for GET) of json with `?`.                                             *)
(***************************************************************************)
C1_NeverFaults == pc = "done" => result.tag # "Err"

(***************************************************************************)
(* C2: while SUPABASE_URL or SUPABASE_ANON_KEY is unset or empty, no       *)
(* outbound call is ever issued, the handler never gets past its entry,    *)
(* and every finished invocation has returned the configuration-error      *)
(* envelope with its error and details fields, whatever the request.       *)
(***************************************************************************)
C2_ConfigErrorNoCall ==
  ~Configured =>
    /\ outbound = <<>>
    /\ pc \in {"idle", "entry", "done"}
    /\ pc = "done" =>
         /\ IsErrorEnvelope(result)
         /\ result.value.error = "Backend environment variables are not set"

\* a PATCH answered with the envelope while only the key is missing
C2_Witness ==
  /\ IsSet(env.SUPABASE_URL) /\ ~env.SUPABASE_ANON_KEY.some
  /\ pc = "done" /\ req.method = "PATCH" /\ IdGiven /\ BodyIsBytes
  /\ IsErrorEnvelope(result)

(***************************************************************************)
(* C3 as stated: a request whose method is not GET, POST, PATCH or DELETE  *)
(* gets {"error": "Unsupported method."} and no outbound call in every     *)
(* configuration state.  Violated: with a configuration value missing the  *)
(* answer is the configuration-error envelope.                             *)
(***************************************************************************)
C3_UnsupportedInEveryConfig ==
  (Invoked /\ req.method \notin {"GET", "POST", "PATCH", "DELETE"}) =>
    /\ outbound = <<>>
    /\ pc = "done" => result = Ok([error |-> "Unsupported method."])

(***************************************************************************)
(* C3 amended: such a request never causes an outbound call in any         *)
(* configuration state; it gets {"error": "Unsupported method."} when both *)
(* configuration values are present and the configuration-error envelope   *)
(* otherwise.                                                              *)
(***************************************************************************)
C3_UnsupportedWhenConfigured ==
  (Invoked /\ req.method \notin {"GET", "POST", "PATCH", "DELETE"}) =>
    /\ outbound = <<>>
    /\ pc \in {"entry", "done"}
    /\ pc = "done" =>
         result = IF Configured THEN Ok([error |-> "Unsupported method."])
                  ELSE Ok(ConfigError)

\* a PUT answered with "Unsupported method." under a full configuration
C3_Witness ==
  /\ Configured /\ pc = "done" /\ req.method = "PUT"
  /\ result = Ok([error |-> "Unsupported method."])


\* the local checks of the branch pass: id present, body parseable, update
\* not empty
LocalValidationPasses ==
  CASE req.method = "GET" -> TRUE
    [] req.method = "DELETE" -> IdGiven
    [] req.method = "POST" -> BodyIsBytes /\ FitsMovieInput(req.body.doc)
    [] req.method = "PATCH" ->
         /\ IdGiven /\ BodyIsBytes
         /\ FitsMovieUpdate(req.body.doc) /\ ~NoFieldPresent(req.body.doc)
    [] OTHER -> FALSE

(***************************************************************************)
(* C4: an invocation issues at most one outbound call; a finished one has  *)
(* issued exactly one when the configuration is present, the verb is GET,  *)
(* POST, PATCH or DELETE and the local validation passes; and a response   *)
(* built from a call is built only once that call has returned.  Violated  *)
(* through the overflow of C9: under overflow checks a GET with a huge     *)
(* page panics before the call is issued.                                  *)
(***************************************************************************)
C4_ExactlyOneCall ==
  /\ Len(outbound) <= 1
  /\ (pc = "done" /\ Configured /\ LocalValidationPasses) => Len(outbound) = 1
  /\ (pc = "done" /\ outbound # <<>> /\ result.tag = "Ok") => res.some

(***************************************************************************)
(* C5: for PATCH and DELETE under a full configuration, when the id query  *)
(* parameter is missing or empty the handler issues no outbound call, does *)
(* not even read the body, and a finished invocation has returned          *)
(* {"error": "Missing id query parameter."}, whatever the body is.         *)
(***************************************************************************)
C5_MissingId ==
  (Configured /\ Invoked /\ req.method \in {"PATCH", "DELETE"} /\ ~IdGiven) =>
    /\ outbound = <<>>
    /\ pc \in {"entry", "done"}
    /\ pc = "done" => result = Ok([error |-> "Missing id query parameter."])

\* a PATCH with `id=` and a body that is not JSON, answered with the id error
C5_Witness ==
  /\ Configured /\ pc = "done" /\ req.method = "PATCH"
  /\ LastOccurrence(req.uri, K_id) = Some(<<>>)
  /\ BodyIsBytes /\ req.body.doc.t = "malformed"
  /\ result = Ok([error |-> "Missing id query parameter."])

(***************************************************************************)
(* C6: for PATCH under a full configuration, with a non-empty id and a     *)
(* body that was read and has the shape of a MovieUpdate: when none of the *)
(* four fields has a value (absent or null) no outbound call is issued and *)
(* the result is {"error": "No fields provided for update."}; when at      *)
(* least one has a value, exactly one outbound call is issued once the     *)
(* body is read, a PATCH to <base>/rest/v1/movies?id=eq.<id>.              *)
(***************************************************************************)
C6_PatchFields ==
  (Configured /\ Invoked /\ req.method = "PATCH" /\ IdGiven /\ BodyIsBytes
     /\ FitsMovieUpdate(req.body.doc)) =>
    IF NoFieldPresent(req.body.doc)
      THEN /\ outbound = <<>>
           /\ pc = "done" => result = Ok([error |-> "No fields provided for update."])
      ELSE pc \notin {"entry", "to_bytes"} =>
             /\ Len(outbound) = 1
             /\ outbound[1].method = "PATCH"
             /\ outbound[1].url = BaseUrl \o <<"/rest/v1/movies?id=eq.">>
                                    \o LastOccurrence(req.uri, K_id).v

\* a PATCH whose only field is null, answered with the no-fields error
C6_Witness ==
  /\ Configured /\ pc = "done" /\ req.method = "PATCH" /\ IdGiven /\ BodyIsBytes
  /\ req.body.doc.t = "object" /\ req.body.doc.title = JNull
  /\ NoFieldPresent(req.body.doc)
  /\ result = Ok([error |-> "No fields provided for update."])
  /\ outbound = <<>>

(***************************************************************************)
(* C7: for POST under a full configuration with a body that was read: when *)
(* the body does not parse as a MovieInput (not JSON, empty, or JSON of    *)
(* another shape) no outbound call is issued and the result is             *)
(* {"error": "Invalid JSON payload."}; when it does, exactly one outbound  *)
(* POST to <base>/rest/v1/movies carries it, whatever the title string is  *)
(* (the empty title included).                                             *)
(***************************************************************************)
C7_PostBody ==
  (Configured /\ Invoked /\ req.method = "POST" /\ BodyIsBytes) =>
    IF ~FitsMovieInput(req.body.doc)
      THEN /\ outbound = <<>>
           /\ pc = "done" => result = Ok([error |-> "Invalid JSON payload."])
      ELSE pc \notin {"entry", "to_bytes"} =>
             /\ Len(outbound) = 1
             /\ outbound[1].method = "POST"
             /\ outbound[1].url = BaseUrl \o <<"/rest/v1/movies">>
             /\ outbound[1].json.title = StructMembers(req.body.doc).v[1].s
             /\ pc = "done" => result # Ok([error |-> "Invalid JSON payload."])

\* a POST of a JSON object without title, answered with the JSON error
C7_Witness ==
  /\ Configured /\ pc = "done" /\ req.method = "POST" /\ BodyIsBytes
  /\ req.body.doc.t = "object" /\ req.body.doc.title = JAbsent
  /\ req.body.doc.popularity = JNumber(7)
  /\ result = Ok([error |-> "Invalid JSON payload."])
  /\ outbound = <<>>


(***************************************************************************)
(* C8: for POST, PATCH and DELETE whose outbound call returned a response, *)
(* the finished invocation has returned the error envelope (error and      *)
(* details) exactly when the status is outside 200..299, details being the *)
(* text of the response body, or "Unknown error" when the body cannot be   *)
(* read; on a status in 200..299 it has returned {"status": "deleted"} for *)
(* DELETE and {"movie": m} for POST and PATCH, m the first record of the   *)
(* response or null when there is none, and no error field.                *)
(***************************************************************************)
C8_ResponseShape ==
  (pc = "done" /\ req.method \in {"POST", "PATCH", "DELETE"} /\ res.some) =>
    LET status  == res.v.status
        body    == res.v.body
        success == status \in 200..299
    IN  /\ result.tag = "Ok"
        /\ IsErrorEnvelope(result) <=> ~success
        /\ ~success =>
             result.value.details =
               IF body.kind = "unreadable" THEN <<"Unknown error">> ELSE BodyText(body)
        /\ success =>
             /\ "error" \notin DOMAIN result.value
             /\ result.value =
                  IF req.method = "DELETE" THEN [status |-> "deleted"]
                  ELSE [movie |-> IF body.kind = "rows" /\ body.rows # <<>>
                                    THEN Some(body.rows[1]) ELSE None]

\* a DELETE of id 7 answered 204 No Content by the backend
C8_Witness ==
  /\ pc = "done" /\ req.method = "DELETE" /\ res.some /\ res.v.status = 204
  /\ id = Some(<<"7">>)
  /\ result = Ok([status |-> "deleted"])

\* the text is a decimal numeral: digits, with an optional leading '+'
IsNumeral(s) ==
  LET digits == IF s # <<>> /\ Head(s) = "+" THEN Tail(s) ELSE s
  IN  digits # <<>> /\ \A i \in 1..Len(digits) : IsDigit(digits[i])

\* the non-negative integer a numeral denotes, of any size
NumeralValue(s) ==
  LET digits == IF Head(s) = "+" THEN Tail(s) ELSE s
  IN  DecNorm([i \in 1..Len(digits) |-> DigitVal(digits[i])])

\* the page a request asks for: that of its page parameter when it is a
\* non-negative integer, else 0
RequestedPage ==
  LET given == Get(query_parts, K_page)
  IN  IF given.some /\ IsNumeral(given.v) THEN NumeralValue(given.v) ELSE <<0>>

(***************************************************************************)
(* C9: for a GET under a full configuration, once the branch has computed  *)
(* its window: page is the page parameter when that is a non-negative      *)
(* integer and 0 otherwise, from = page * 8 and to = from + 7, for every   *)
(* non-negative integer page.  Violated from page = 2^61 on: page * 8 does *)
(* not fit a usize, so the product wraps or the handler panics, and from   *)
(* 2^64 on the parameter does not parse and page is 0.                     *)
(***************************************************************************)
C9_Window ==
  (Parsed /\ req.method = "GET") =>
    /\ page = Some(RequestedPage)
    /\ from = Some(DecMulAdd(RequestedPage, 8, 0))
    /\ to = Some(DecMulAdd(RequestedPage, 8, 7))

(***************************************************************************)
(* C10 as stated: a key that occurs more than once in the query string     *)
(* resolves to the value of its first occurrence, for query, page and id.  *)
(* Violated: the pairs are collected into a HashMap, where a later pair    *)
(* replaces an earlier one.                                                *)
(***************************************************************************)
C10_FirstOccurrence ==
  Parsed => \A k \in {K_query, K_page, K_id} :
              Get(query_parts, k) = FirstOccurrence(req.uri, k)

(***************************************************************************)
(* C10 amended: a key that occurs more than once resolves to the value of  *)
(* its last occurrence, consistently for query, page and id: the id that   *)
(* PATCH and DELETE target and the page that GET parses are those of the   *)
(* last occurrence.                                                        *)
(***************************************************************************)
C10_LastOccurrence ==
  Parsed =>
    /\ \A k \in {K_query, K_page, K_id} :
         Get(query_parts, k) = LastOccurrence(req.uri, k)
    /\ (req.method \in {"PATCH", "DELETE"} /\ outbound # <<>>) =>
         outbound[1].url = BaseUrl \o <<"/rest/v1/movies?id=eq.">>
                             \o LastOccurrence(req.uri, K_id).v
    /\ (req.method = "GET" /\ LastOccurrence(req.uri, K_page).some) =>
         page = Some(UnwrapOr(ParseUsize(LastOccurrence(req.uri, K_page).v), <<0>>))

\* a DELETE of ?id=1&id=7 that targets id 7
C10_Witness ==
  /\ Parsed /\ req.method = "DELETE"
  /\ FirstOccurrence(req.uri, K_id) = Some(<<"1">>)
  /\ LastOccurrence(req.uri, K_id) = Some(<<"7">>)
  /\ Len(outbound) = 1
  /\ outbound[1].url = BaseUrl \o <<"/rest/v1/movies?id=eq.", "7">>

====
